---- MODULE Spec2Model ----
(***************************************************************************)
(* A model of the CHIP-8 interpreter of src/src/chip8/interpreter.rs: the  *)
(* Interpreter aggregate (memory, registers, index_register,               *)
(* program_counter) and its three operations new, load_program and         *)
(* execute_cycle.  One behaviour is one run of a caller that constructs an *)
(* interpreter, holds the bytes of one ROM file (rom_data) and calls       *)
(* load_program(rom_data) and execute_cycle in any order.                  *)
(*                                                                         *)
(* HostSpec is the caller of src/src/main.rs: an interpreter thread that   *)
(* loads the ROM and then cycles, sending a copy of memory over a channel  *)
(* after each cycle, and the event loop of the main thread, which draws    *)
(* one received copy per RedrawRequested event.                            *)
(***************************************************************************)
EXTENDS Integers, Sequences, FiniteSets, TLC

VARIABLES
    memory,           \* [u8; 4096]
    registers,        \* [u8; 16]
    index_register,   \* u16
    program_counter,  \* u16
    overflow_checks,  \* whether the build panics on integer overflow
    status,           \* "running", or "panicked" once a call has panicked
    rom_data,         \* the bytes of the ROM file handed to load_program
    last_call,        \* the last call made: "new", "load_program", "execute_cycle"
    last_result,      \* how it ended: "Ok", "Err" (load_program), "panic"
    last_opcode,      \* the opcode the last execute_cycle fetched, -1 if none
    loads,            \* number of load_program calls made
    cycles,           \* number of execute_cycle calls made
    before_call,      \* registers, index_register and framebuffer bytes as the
                      \* last call found them
    \* the host program of main.rs
    thread_at,        \* where the interpreter thread is: "start", "cycle", "send",
                      \* "notify", "dead"; "absent" when there is no host
    channel,          \* the [u8; 4096] values sent and not yet received
    user_events,      \* number of UserEvent::RedrawScreen not yet delivered
    redraw_requested, \* whether the window has a redraw request pending
    window,           \* "none" before it is created, "open", "closed"
    screen,           \* the framebuffer bytes of the last frame drawn, <<>> if none
    frames,           \* number of frames drawn
    images,           \* the framebuffer bytes after each completed cycle, in order
    process,          \* "running", or "aborted" once a panic has aborted the process
    panic_aborts      \* whether the build aborts the process on a panic

vars == <<memory, registers, index_register, program_counter, overflow_checks,
          status, rom_data, last_call, last_result, last_opcode, loads, cycles,
          before_call, thread_at, channel, user_events, redraw_requested, window,
          screen, frames, images, process, panic_aborts>>

host_vars == <<thread_at, channel, user_events, redraw_requested, window, screen,
               frames, images, process, panic_aborts>>

----------------------------------------------------------------------------
(* Bounds of the model *)

MaxLoads == 2
MaxCycles == 6
\* Number of cycles the interpreter thread of the host runs
HostCycles == 3

----------------------------------------------------------------------------
(* Program constants *)

MemorySize == 4096
NumRegisters == 16
DISPLAY_WIDTH == 64
DISPLAY_HEIGHT == 32
DISPLAY_SIZE == (DISPLAY_WIDTH * DISPLAY_HEIGHT) \div 8
ProgramOffset == 512
DisplayBase == 3840
FlagRegister == 15

Byte == 0..255
Address == 0..(MemorySize - 1)

----------------------------------------------------------------------------
(* u8 / u16 arithmetic as the code computes it *)

RECURSIVE BitAndW(_, _, _)
BitAndW(a, b, w) ==
    IF w = 0 THEN 0
    ELSE (IF a % 2 = 1 /\ b % 2 = 1 THEN 1 ELSE 0)
         + 2 * BitAndW(a \div 2, b \div 2, w - 1)

RECURSIVE BitOrW(_, _, _)
BitOrW(a, b, w) ==
    IF w = 0 THEN 0
    ELSE (IF a % 2 = 1 \/ b % 2 = 1 THEN 1 ELSE 0)
         + 2 * BitOrW(a \div 2, b \div 2, w - 1)

RECURSIVE BitXorW(_, _, _)
BitXorW(a, b, w) ==
    IF w = 0 THEN 0
    ELSE (IF (a % 2) # (b % 2) THEN 1 ELSE 0)
         + 2 * BitXorW(a \div 2, b \div 2, w - 1)

BitAnd(a, b) == BitAndW(a, b, 16)
BitOr(a, b) == BitOrW(a, b, 16)
BitXor(a, b) == BitXorW(a, b, 16)

\* v >> r on an unsigned value
Shr(v, r) == v \div (2 ^ r)
\* v << r on a u8: the bits shifted past bit 7 are lost
ShlU8(v, r) == (v * (2 ^ r)) % 256
\* (hi as u16) << 8 | (lo as u16)
Word(hi, lo) == BitOr(hi * 256, lo)

----------------------------------------------------------------------------
(* Interpreter::new *)

character_rom ==
    << 240, 144, 144, 144, 240,   \* 0
        32,  96,  32,  32, 112,   \* 1
       240,  16, 240, 128, 240,   \* 2
       240,  16, 240,  16, 240,   \* 3
       144, 144, 240,  16,  16,   \* 4
       240, 128, 240,  16, 240,   \* 5
       240, 128, 240, 144, 240,   \* 6
       240,  16,  32,  64,  64,   \* 7
       240, 144, 240, 144, 240,   \* 8
       240, 144, 240,  16, 240,   \* 9
       240, 144, 240, 144, 144,   \* A
       224, 144, 224, 144, 224,   \* B
       240, 128, 128, 128, 240,   \* C
       224, 144, 144, 144, 224,   \* D
       240, 128, 240, 128, 240,   \* E
       240, 128, 240, 128, 128 >> \* F

\* memory[0x00..0x00 + character_rom.len()].copy_from_slice(&character_rom)
NewMemory ==
    [a \in Address |-> IF a < Len(character_rom) THEN character_rom[a + 1] ELSE 0]

\* Mutant of new: the program counter is left at zero.
new_ZeroCounter ==
    [memory          |-> NewMemory,
     registers       |-> [r \in 0..(NumRegisters - 1) |-> 0],
     index_register  |-> 0,
     program_counter |-> 0,
     panicked        |-> FALSE]

new ==
    [memory          |-> NewMemory,
     registers       |-> [r \in 0..(NumRegisters - 1) |-> 0],
     index_register  |-> 0,
     program_counter |-> 512,
     panicked        |-> FALSE]

----------------------------------------------------------------------------
(* Interpreter::load_program *)

\* self.memory.len() - program_offset
available_space == MemorySize - ProgramOffset

\* self.memory[program_offset..(program_offset + rom_data.len())].copy_from_slice(rom_data)
\* Mutant of CopyFromSlice: the last byte of data is not copied.
CopyFromSlice_DropsLast(mem, offset, data) ==
    [a \in offset..(offset + Len(data) - 2) |-> data[a - offset + 1]] @@ mem

\* Mutant of CopyFromSlice: the copy starts one address too far.
CopyFromSlice_OffByOne(mem, offset, data) ==
    LET last == IF offset + Len(data) < MemorySize
                THEN offset + Len(data) ELSE MemorySize - 1
    IN  [a \in (offset + 1)..last |-> data[a - offset]] @@ mem

\* The addresses offset .. offset + len(data) - 1 take the bytes of data, every
\* other address keeps its byte.
CopyFromSlice(mem, offset, data) ==
    [a \in offset..(offset + Len(data) - 1) |-> data[a - offset + 1]] @@ mem

\* Mutant of load_program: what fits is copied before the size is checked.
load_program_CopyThenCheck(s, data) ==
    IF Len(data) > available_space
    THEN [result |-> "Err",
          state  |-> [s EXCEPT !.memory =
                         CopyFromSlice(s.memory, ProgramOffset,
                                       SubSeq(data, 1, available_space))]]
    ELSE [result |-> "Ok",
          state  |-> [s EXCEPT !.memory = CopyFromSlice(s.memory, ProgramOffset, data)]]

\* Mutant of load_program: a successful load rewinds the program counter.
load_program_RewindsCounter(s, data) ==
    IF Len(data) > available_space
    THEN [result |-> "Err", state |-> s]
    ELSE [result |-> "Ok",
          state  |-> [s EXCEPT !.memory = CopyFromSlice(s.memory, ProgramOffset, data),
                               !.program_counter = ProgramOffset]]

\* The value returned and the interpreter afterwards.
load_program(s, data) ==
    IF Len(data) > available_space
    THEN [result |-> "Err", state |-> s]
    ELSE [result |-> "Ok",
          state  |-> [s EXCEPT !.memory = CopyFromSlice(s.memory, ProgramOffset, data)]]

----------------------------------------------------------------------------
(* Interpreter::execute_cycle *)

\* A panic unwinds out of the call: what was written before it stays written.
Panic(s) == [s EXCEPT !.panicked = TRUE]

\* Mutant of step_to_next_instruction: the counter advances by one byte.
step_to_next_instruction_ByOne(s) == [s EXCEPT !.program_counter = @ + 1]

step_to_next_instruction(s) == [s EXCEPT !.program_counter = @ + 2]

\* The operand fields of an opcode
NibbleX(opcode) == Shr(BitAnd(opcode, 3840), 8)     \* (opcode & 0x0F00) >> 8
NibbleY(opcode) == Shr(BitAnd(opcode, 240), 4)      \* (opcode & 0x00F0) >> 4
NibbleN(opcode) == BitAnd(opcode, 15)               \* opcode & 0x000F
LowByte(opcode) == BitAnd(opcode, 255)              \* (opcode & 0x00FF) as u8
Low12(opcode) == BitAnd(opcode, 4095)               \* opcode & 0x0FFF
HighNibble(opcode) == Shr(BitAnd(opcode, 61440), 12) \* (opcode & 0xF000) >> 12

\* Mutant of Op00E0: the fill starts one byte below the framebuffer.
Op00E0_ClearsFromBelow(s, opcode) ==
    step_to_next_instruction(
        [s EXCEPT !.memory =
            [a \in (DisplayBase - 1)..(DisplayBase + DISPLAY_SIZE - 1) |-> 0]
                @@ s.memory])

\* Mutant of Op00E0: the fill stops one byte short of the end of memory.
Op00E0_ClearsShort(s, opcode) ==
    step_to_next_instruction(
        [s EXCEPT !.memory =
            [a \in DisplayBase..(DisplayBase + DISPLAY_SIZE - 2) |-> 0] @@ s.memory])

\* (0x0, 0x0, 0xE, 0x0): self.memory[0xF00..0xF00 + DISPLAY_SIZE].fill(0x00)
Op00E0(s, opcode) ==
    step_to_next_instruction(
        [s EXCEPT !.memory =
            [a \in DisplayBase..(DisplayBase + DISPLAY_SIZE - 1) |-> 0] @@ s.memory])

\* Mutant of Op1nnn: the target is aligned to an even address.
Op1nnn_AlignsTarget(s, opcode) ==
    [s EXCEPT !.program_counter = BitAnd(opcode, 4094)]

\* (0x1, _, _, _)
Op1nnn(s, opcode) == [s EXCEPT !.program_counter = Low12(opcode)]

\* (0x3, _, _, _)
Op3xkk(s, opcode) ==
    IF s.registers[NibbleX(opcode)] = LowByte(opcode)
    THEN [s EXCEPT !.program_counter = @ + 4]
    ELSE step_to_next_instruction(s)

\* Mutant of Op4xkk: the comparison of 3xkk, skipping when Vx = kk.
Op4xkk_SkipsOnEqual(s, opcode) ==
    IF s.registers[NibbleX(opcode)] = LowByte(opcode)
    THEN [s EXCEPT !.program_counter = @ + 4]
    ELSE step_to_next_instruction(s)

\* (0x4, _, _, _)
Op4xkk(s, opcode) ==
    IF s.registers[NibbleX(opcode)] # LowByte(opcode)
    THEN [s EXCEPT !.program_counter = @ + 4]
    ELSE step_to_next_instruction(s)

\* (0x5, _, _, _): the arm does not look at the lowest nibble
Op5xy0(s, opcode) ==
    IF s.registers[NibbleX(opcode)] = s.registers[NibbleY(opcode)]
    THEN [s EXCEPT !.program_counter = @ + 4]
    ELSE step_to_next_instruction(s)

\* Mutant of Op6xkk: the flag register is cleared as well.
Op6xkk_ClearsFlag(s, opcode) ==
    step_to_next_instruction(
        [s EXCEPT !.registers[NibbleX(opcode)] = LowByte(opcode),
                  !.registers[FlagRegister] = 0])

\* (0x6, _, _, _)
Op6xkk(s, opcode) ==
    step_to_next_instruction([s EXCEPT !.registers[NibbleX(opcode)] = LowByte(opcode)])

\* (0x7, _, _, _): self.registers[register_index] += register_value, on u8.
\* With overflow checks the addition panics when the sum exceeds 255,
\* without them it wraps.
Op7xkk(s, opcode) ==
    LET sum == s.registers[NibbleX(opcode)] + LowByte(opcode)
    IN  IF sum > 255 /\ overflow_checks
        THEN Panic(s)
        ELSE step_to_next_instruction(
                 [s EXCEPT !.registers[NibbleX(opcode)] = sum % 256])

\* Mutant of Op8xyN: 8xy3 computes OR.
Op8xyN_XorIsOr(s, opcode) ==
    LET x == NibbleX(opcode)
        y == NibbleY(opcode)
        n == NibbleN(opcode)
    IN  CASE n = 0 -> step_to_next_instruction(
                          [s EXCEPT !.registers[x] = s.registers[y]])
          [] n \in {1, 3} -> step_to_next_instruction(
                          [s EXCEPT !.registers[x] = BitOr(@, s.registers[y])])
          [] n = 2 -> step_to_next_instruction(
                          [s EXCEPT !.registers[x] = BitAnd(@, s.registers[y])])
          [] OTHER -> Panic(s)

\* Mutant of Op8xyN: 8xy1 stores the result in Vy as well.
Op8xyN_OrWritesVy(s, opcode) ==
    LET x == NibbleX(opcode)
        y == NibbleY(opcode)
        n == NibbleN(opcode)
    IN  CASE n = 0 -> step_to_next_instruction(
                          [s EXCEPT !.registers[x] = s.registers[y]])
          [] n = 1 -> step_to_next_instruction(
                          [s EXCEPT !.registers[x] = BitOr(@, s.registers[y]),
                                    !.registers[y] = BitOr(@, s.registers[x])])
          [] n = 2 -> step_to_next_instruction(
                          [s EXCEPT !.registers[x] = BitAnd(@, s.registers[y])])
          [] n = 3 -> step_to_next_instruction(
                          [s EXCEPT !.registers[x] = BitXor(@, s.registers[y])])
          [] OTHER -> Panic(s)

\* (0x8, _, _, _): match opcode & 0x000F
Op8xyN(s, opcode) ==
    LET x == NibbleX(opcode)
        y == NibbleY(opcode)
        n == NibbleN(opcode)
    IN  CASE n = 0 -> step_to_next_instruction(
                          [s EXCEPT !.registers[x] = s.registers[y]])
          [] n = 1 -> step_to_next_instruction(
                          [s EXCEPT !.registers[x] = BitOr(@, s.registers[y])])
          [] n = 2 -> step_to_next_instruction(
                          [s EXCEPT !.registers[x] = BitAnd(@, s.registers[y])])
          [] n = 3 -> step_to_next_instruction(
                          [s EXCEPT !.registers[x] = BitXor(@, s.registers[y])])
          [] OTHER -> Panic(s)

\* Mutant of OpAnnn: only the low byte of the opcode reaches the index register.
OpAnnn_LowByteOnly(s, opcode) ==
    step_to_next_instruction([s EXCEPT !.index_register = LowByte(opcode)])

\* (0xA, _, _, _)
OpAnnn(s, opcode) ==
    step_to_next_instruction([s EXCEPT !.index_register = Low12(opcode)])

\* Mutant of DrawSecondByte: an address past the end of memory wraps to its start.
DrawSecondByte_WrapsAddress(s, value, byte_remainder, display_offset) ==
    IF byte_remainder > 0
    THEN LET second_byte == ShlU8(value, 8 - byte_remainder)
             a == (DisplayBase + display_offset + 1) % MemorySize
         IN  IF second_byte > 0
             THEN [s EXCEPT
                     !.registers[FlagRegister] =
                         BitOr(@, BitAnd(second_byte, s.memory[a])),
                     !.memory[a] = BitXor(@, second_byte)]
             ELSE s
    ELSE s

\* Mutant of DrawSecondByte: the straddling part is applied even when it is zero.
DrawSecondByte_Unconditional(s, value, byte_remainder, display_offset) ==
    IF byte_remainder > 0
    THEN LET second_byte == ShlU8(value, 8 - byte_remainder)
             a == DisplayBase + display_offset + 1
         IN  IF a >= MemorySize
             THEN Panic(s)
             ELSE [s EXCEPT
                     !.registers[FlagRegister] =
                         BitOr(@, BitAnd(second_byte, s.memory[a])),
                     !.memory[a] = BitXor(@, second_byte)]
    ELSE s

\* The second (straddling) part of one sprite row:
\* if byte_remainder > 0 { let second_byte = value << (8 - byte_remainder); ... }
DrawSecondByte(s, value, byte_remainder, display_offset) ==
    IF byte_remainder > 0
    THEN LET second_byte == ShlU8(value, 8 - byte_remainder)
             a == DisplayBase + display_offset + 1
         IN  IF second_byte > 0
             THEN IF a >= MemorySize
                  THEN Panic(s)
                  ELSE [s EXCEPT
                          !.registers[FlagRegister] =
                              BitOr(@, BitAnd(second_byte, s.memory[a])),
                          !.memory[a] = BitXor(@, second_byte)]
             ELSE s
    ELSE s

\* Mutant of DrawRow: the first part is applied at display_offset itself,
\* without the base address of the framebuffer.
DrawRow_NoDisplayBase(s, i, vx, vy, byte) ==
    LET row_index == (vy + byte) % 32
        column_index == vx % 64
    IN  IF i + byte >= MemorySize
        THEN Panic(s)
        ELSE LET value == s.memory[i + byte]
                 byte_remainder == column_index % 8
                 first_byte == Shr(value, byte_remainder)
                 display_offset == (row_index * 8) + (column_index \div 8)
                 a == display_offset
                 s1 == [s EXCEPT
                          !.registers[FlagRegister] =
                              BitOr(@, BitAnd(first_byte, s.memory[a])),
                          !.memory[a] = BitXor(@, first_byte)]
             IN  DrawSecondByte(s1, value, byte_remainder, display_offset)

\* Mutant of DrawRow: the byte column of the position is ignored.
DrawRow_IgnoresColumn(s, i, vx, vy, byte) ==
    LET row_index == (vy + byte) % 32
        column_index == vx % 64
    IN  IF i + byte >= MemorySize
        THEN Panic(s)
        ELSE LET value == s.memory[i + byte]
                 byte_remainder == column_index % 8
                 first_byte == Shr(value, byte_remainder)
                 display_offset == row_index * 8
                 a == DisplayBase + display_offset
                 s1 == [s EXCEPT
                          !.registers[FlagRegister] =
                              BitOr(@, BitAnd(first_byte, s.memory[a])),
                          !.memory[a] = BitXor(@, first_byte)]
             IN  DrawSecondByte(s1, value, byte_remainder, display_offset)

\* Mutant of DrawRow: the sprite is ORed onto the framebuffer.
DrawRow_OrsPixels(s, i, vx, vy, byte) ==
    LET row_index == (vy + byte) % 32
        column_index == vx % 64
    IN  IF i + byte >= MemorySize
        THEN Panic(s)
        ELSE LET value == s.memory[i + byte]
                 byte_remainder == column_index % 8
                 first_byte == Shr(value, byte_remainder)
                 display_offset == (row_index * 8) + (column_index \div 8)
                 a == DisplayBase + display_offset
                 s1 == [s EXCEPT
                          !.registers[FlagRegister] =
                              BitOr(@, BitAnd(first_byte, s.memory[a])),
                          !.memory[a] = BitOr(@, first_byte)]
             IN  DrawSecondByte(s1, value, byte_remainder, display_offset)

\* Mutant of DrawRow: rows that fall below the last framebuffer row are not drawn.
DrawRow_ClipsAtBottom(s, i, vx, vy, byte) ==
    LET row_index == (vy % 32) + byte
        column_index == vx % 64
    IN  IF i + byte >= MemorySize
        THEN Panic(s)
        ELSE IF row_index > 31
        THEN s
        ELSE LET value == s.memory[i + byte]
                 byte_remainder == column_index % 8
                 first_byte == Shr(value, byte_remainder)
                 display_offset == (row_index * 8) + (column_index \div 8)
                 a == DisplayBase + display_offset
                 s1 == [s EXCEPT
                          !.registers[FlagRegister] =
                              BitOr(@, BitAnd(first_byte, s.memory[a])),
                          !.memory[a] = BitXor(@, first_byte)]
             IN  DrawSecondByte(s1, value, byte_remainder, display_offset)

\* One iteration of `for byte in 0..nibble`
DrawRow(s, i, vx, vy, byte) ==
    LET row_index == (vy + byte) % 32
        column_index == vx % 64
    IN  IF i + byte >= MemorySize
        THEN Panic(s)
        ELSE LET value == s.memory[i + byte]
                 byte_remainder == column_index % 8
                 first_byte == Shr(value, byte_remainder)
                 display_offset == (row_index * 8) + (column_index \div 8)
                 a == DisplayBase + display_offset
                 s1 == [s EXCEPT
                          !.registers[FlagRegister] =
                              BitOr(@, BitAnd(first_byte, s.memory[a])),
                          !.memory[a] = BitXor(@, first_byte)]
             IN  DrawSecondByte(s1, value, byte_remainder, display_offset)

RECURSIVE DrawRows(_, _, _, _, _, _)
DrawRows(s, i, vx, vy, nibble, byte) ==
    IF byte >= nibble \/ s.panicked
    THEN s
    ELSE DrawRows(DrawRow(s, i, vx, vy, byte), i, vx, vy, nibble, byte + 1)

\* Mutant of OpDxyn: the flag register is not reset before the rows.
OpDxyn_KeepsFlag(s, opcode) ==
    LET i == s.index_register
        vx == s.registers[NibbleX(opcode)]
        vy == s.registers[NibbleY(opcode)]
        nibble == NibbleN(opcode)
        drawn == DrawRows(s, i, vx, vy, nibble, 0)
    IN  IF drawn.panicked THEN drawn ELSE step_to_next_instruction(drawn)

\* Mutant of OpDxyn: Vx and Vy are read after the flag register is reset.
OpDxyn_ReadsAfterReset(s, opcode) ==
    LET i == s.index_register
        nibble == NibbleN(opcode)
        s0 == [s EXCEPT !.registers[FlagRegister] = 0]
        vx == s0.registers[NibbleX(opcode)]
        vy == s0.registers[NibbleY(opcode)]
        drawn == DrawRows(s0, i, vx, vy, nibble, 0)
    IN  IF drawn.panicked THEN drawn ELSE step_to_next_instruction(drawn)

\* Mutant of OpDxyn: the flag register is cleared once more after the rows.
OpDxyn_ForgetsCollisions(s, opcode) ==
    LET i == s.index_register
        vx == s.registers[NibbleX(opcode)]
        vy == s.registers[NibbleY(opcode)]
        nibble == NibbleN(opcode)
        s0 == [s EXCEPT !.registers[FlagRegister] = 0]
        drawn == DrawRows(s0, i, vx, vy, nibble, 0)
    IN  IF drawn.panicked THEN drawn
        ELSE step_to_next_instruction([drawn EXCEPT !.registers[FlagRegister] = 0])

\* (0xD, _, _, _)
OpDxyn(s, opcode) ==
    LET i == s.index_register
        vx == s.registers[NibbleX(opcode)]
        vy == s.registers[NibbleY(opcode)]
        nibble == NibbleN(opcode)
        s0 == [s EXCEPT !.registers[FlagRegister] = 0]
        drawn == DrawRows(s0, i, vx, vy, nibble, 0)
    IN  IF drawn.panicked THEN drawn ELSE step_to_next_instruction(drawn)

\* _ => panic!("Unsupported opcode: {:04X}", opcode)
OpUnsupported(s, opcode) == Panic(s)

\* let opcode = (high_byte as u16) << 8 | (low_byte as u16)
Fetch(s) == Word(s.memory[s.program_counter], s.memory[s.program_counter + 1])

\* Reading memory[pc] or memory[pc + 1] past the end of the array panics.
FetchInRange(s) == s.program_counter + 1 < MemorySize

Dispatch(s, opcode) ==
    LET n1 == HighNibble(opcode)
        n2 == NibbleX(opcode)
        n3 == NibbleY(opcode)
        n4 == NibbleN(opcode)
    IN  CASE n1 = 0 /\ n2 = 0 /\ n3 = 14 /\ n4 = 0 -> Op00E0(s, opcode)
          [] n1 = 1  -> Op1nnn(s, opcode)
          [] n1 = 3  -> Op3xkk(s, opcode)
          [] n1 = 4  -> Op4xkk(s, opcode)
          [] n1 = 5  -> Op5xy0(s, opcode)
          [] n1 = 6  -> Op6xkk(s, opcode)
          [] n1 = 7  -> Op7xkk(s, opcode)
          [] n1 = 8  -> Op8xyN(s, opcode)
          [] n1 = 10 -> OpAnnn(s, opcode)
          [] n1 = 13 -> OpDxyn(s, opcode)
          [] OTHER   -> OpUnsupported(s, opcode)

execute_cycle(s) ==
    IF FetchInRange(s) THEN Dispatch(s, Fetch(s)) ELSE Panic(s)

----------------------------------------------------------------------------
(* The ROM files the caller may hold *)

\* An opcode from its four nibbles
Op(n1, n2, n3, n4) == n1 * 4096 + n2 * 256 + n3 * 16 + n4
\* An opcode from its high nibble, a register index and an immediate byte
OpXkk(n1, x, kk) == n1 * 4096 + x * 256 + kk
\* An opcode from its high nibble and a 12-bit address
OpNnn(n1, nnn) == n1 * 4096 + nnn

\* opcodes.iter().flat_map(|&opcode| opcode.to_be_bytes()).collect()
ToBytes(opcodes) ==
    [k \in 1..(2 * Len(opcodes)) |->
        IF k % 2 = 1 THEN opcodes[(k + 1) \div 2] \div 256
        ELSE opcodes[k \div 2] % 256]

\* [v; len]
Fill(len, v) == [k \in 1..len |-> v]

\* A program followed by 0xFF bytes up to a total length
Padded(opcodes, len) == ToBytes(opcodes) \o Fill(len - 2 * Len(opcodes), 255)

\* ROM sizes around the framebuffer base (0xF00 - 0x200 = 3328) and the
\* capacity bound (4096 - 0x200 = 3584)
RomSizes == {0, 1, 3328, 3329, 3584, 3585}

FillRoms == {Fill(len, 255) : len \in RomSizes}

\* Large ROMs that begin with code: clear the screen, then jump back
PaddedRoms ==
    {Padded(<<Op(0, 0, 14, 0), OpNnn(1, 512)>>, len) : len \in {3584, 3585}}

\* Opcodes outside the thirteen encodings of the opcode table
UnrecognizedOpcodes ==
    {Op(0, 0, 0, 0), Op(0, 0, 14, 1), Op(0, 0, 14, 14), Op(0, 0, 15, 0),
     Op(0, 1, 14, 0), Op(0, 15, 15, 15), OpNnn(2, 512),
     Op(5, 0, 1, 1), Op(5, 0, 1, 15),
     Op(8, 0, 1, 4), Op(8, 0, 1, 5), Op(8, 0, 1, 6), Op(8, 0, 1, 7),
     Op(8, 0, 1, 14), Op(8, 0, 1, 15),
     Op(9, 0, 1, 0), OpNnn(11, 512), OpXkk(12, 0, 255),
     Op(14, 0, 9, 14), Op(15, 0, 0, 10), Op(15, 15, 15, 15)}

\* One unrecognized opcode, followed by a register load
UnrecognizedPrograms ==
    {<<op, OpXkk(6, 0, 18)>> : op \in UnrecognizedOpcodes}
    \cup {<<OpXkk(6, 0, 1), Op(5, 0, 1, 1), OpXkk(6, 0, 18)>>}

\* Jumps
JumpTargets == {0, 1, 80, 512, 514, 515, 3840, 4094, 4095}
JumpPrograms ==
    {<<OpNnn(1, nnn), OpXkk(6, 0, 18)>> : nnn \in JumpTargets}
    \* a jump to the odd address 0x203, where the bytes 60 12, 00 12 are found
    \cup {<<OpNnn(1, 515), OpXkk(0, 0, 96), OpXkk(1, 2, 0), OpXkk(1, 2, 0)>>}

\* Register pairs (x, y) and the contents given to Vx and Vy
RegisterPairs == {<<0, 1>>, <<1, 1>>, <<15, 2>>, <<2, 15>>}
RegisterValues == {<<1, 1>>, <<1, 0>>, <<255, 255>>, <<15, 240>>}

\* Runs of the register-only opcodes on registers x and y
RegisterBodies(x, y) ==
    {<<OpXkk(3, x, 1), OpXkk(4, x, 255), Op(5, x, y, 0), Op(8, x, y, 1)>>,
     <<Op(8, x, y, 2), Op(8, x, y, 3), Op(8, x, y, 0), OpXkk(7, x, 1)>>,
     <<OpXkk(7, x, 255), OpXkk(6, x, 171), OpXkk(4, x, 1), OpXkk(3, x, 255)>>}

\* Set Vx and Vy, then run one body
RegisterPrograms ==
    UNION {{<<OpXkk(6, p[1], v[1]), OpXkk(6, p[2], v[2])>> \o body :
                v \in RegisterValues, body \in RegisterBodies(p[1], p[2])} :
           p \in RegisterPairs}

\* Set Vx and Vy and the index register, draw the sprite twice, clear the screen
DrawProgram(x, y, vx, vy, i, n) ==
    <<OpXkk(6, x, vx), OpXkk(6, y, vy), OpNnn(10, i),
      Op(13, x, y, n), Op(13, x, y, n), Op(0, 0, 14, 0)>>

\* Set Vx and Vy, draw the sprite at i, then the sprite at j over it
OverdrawProgram(x, y, vx, vy, i, j, n) ==
    <<OpXkk(6, x, vx), OpXkk(6, y, vy), OpNnn(10, i),
      Op(13, x, y, n), OpNnn(10, j), Op(13, x, y, n)>>

DrawPrograms ==
    \* glyph 0 at aligned, unaligned, last-column and bottom-row positions
    {DrawProgram(0, 1, vx, vy, 0, 5) : vx \in {0, 4, 60}, vy \in {0, 30, 31}}
    \* positions past the screen size
    \cup {DrawProgram(0, 1, 68, 0, 0, 5), DrawProgram(0, 1, 0, 255, 0, 5),
          DrawProgram(0, 1, 255, 255, 0, 5)}
    \* sprite heights
    \cup {DrawProgram(0, 1, 4, 1, 0, n) : n \in {0, 1, 15}}
    \* sprite sources: another glyph, the program, the framebuffer, the end of memory
    \cup {DrawProgram(0, 1, 4, 0, i, 5) : i \in {5, 512, 3840, 4094, 4095}}
    \* the flag register as a position operand
    \cup {DrawProgram(15, 1, 4, 2, 0, 5), DrawProgram(1, 15, 4, 2, 0, 5),
          DrawProgram(15, 15, 4, 4, 0, 5)}
    \* two different sprites at the same place
    \cup {OverdrawProgram(0, 1, 0, 0, 0, 5, 5), OverdrawProgram(0, 1, 4, 0, 5, 35, 5)}
    \* other byte columns and other bit offsets within a byte
    \cup {DrawProgram(0, 1, vx, 2, 0, 5) : vx \in {1, 8, 13, 56, 63, 248}}
    \* the byte 0x80 of glyph 5 at the last pixel of the screen
    \cup {DrawProgram(0, 1, 63, 31, 26, 1)}
    \* a sprite of no rows while VF holds a non-zero value
    \cup {DrawProgram(15, 1, 4, 2, 0, 0)}
    \* glyph 0 at the origin three times, on registers as new() leaves them
    \cup {<<Op(13, 0, 1, 5), Op(13, 0, 1, 5), Op(13, 0, 1, 5)>>}

\* Large ROMs that draw: glyph 0 twice on a framebuffer the ROM itself filled
\* with 0xFF, and a sprite that starts at the last byte before the framebuffer
DrawRoms ==
    {Padded(<<Op(13, 0, 1, 5), Op(13, 0, 1, 5)>>, 3584),
     Padded(<<OpNnn(10, 3839), Op(13, 0, 1, 2), Op(13, 0, 1, 2)>>, 3328)}

Programs ==
    UnrecognizedPrograms \cup JumpPrograms \cup RegisterPrograms \cup DrawPrograms

Roms == FillRoms \cup PaddedRoms \cup DrawRoms \cup {ToBytes(p) : p \in Programs}

----------------------------------------------------------------------------
(* The state machine *)

\* The interpreter as the operations see it
Self ==
    [memory          |-> memory,
     registers       |-> registers,
     index_register  |-> index_register,
     program_counter |-> program_counter,
     panicked        |-> FALSE]

\* What a call finds of the registers, the index register and the framebuffer
Found(s) ==
    [registers      |-> s.registers,
     index_register |-> s.index_register,
     framebuffer    |-> [o \in 0..(DISPLAY_SIZE - 1) |-> s.memory[DisplayBase + o]]]

\* No host: the interpreter is called directly
HostAbsent ==
    /\ thread_at = "absent"
    /\ channel = <<>>
    /\ user_events = 0
    /\ redraw_requested = FALSE
    /\ window = "none"
    /\ screen = <<>>
    /\ frames = 0
    /\ images = <<>>
    /\ process = "running"
    /\ panic_aborts = FALSE

Init ==
    /\ rom_data \in Roms
    /\ overflow_checks \in BOOLEAN
    /\ memory = new.memory
    /\ registers = new.registers
    /\ index_register = new.index_register
    /\ program_counter = new.program_counter
    /\ status = "running"
    /\ last_call = "new"
    /\ last_result = "Ok"
    /\ last_opcode = -1
    /\ loads = 0
    /\ cycles = 0
    /\ before_call = Found(new)
    /\ HostAbsent

\* interpreter.load_program(&rom_data)
LoadProgram ==
    /\ status = "running"
    /\ loads < MaxLoads
    /\ \E r \in {load_program(Self, rom_data)} :
           /\ memory' = r.state.memory
           /\ registers' = r.state.registers
           /\ index_register' = r.state.index_register
           /\ program_counter' = r.state.program_counter
           /\ last_result' = r.result
    /\ last_call' = "load_program"
    /\ last_opcode' = -1
    /\ loads' = loads + 1
    /\ before_call' = Found(Self)
    /\ UNCHANGED <<overflow_checks, status, rom_data, cycles>>
    /\ UNCHANGED host_vars

\* interpreter.execute_cycle()
ExecuteCycle ==
    /\ status = "running"
    /\ cycles < MaxCycles
    /\ \E r \in {execute_cycle(Self)} :
           /\ memory' = r.memory
           /\ registers' = r.registers
           /\ index_register' = r.index_register
           /\ program_counter' = r.program_counter
           /\ status' = IF r.panicked THEN "panicked" ELSE "running"
           /\ last_result' = IF r.panicked THEN "panic" ELSE "Ok"
    /\ last_call' = "execute_cycle"
    /\ last_opcode' = IF FetchInRange(Self) THEN Fetch(Self) ELSE -1
    /\ cycles' = cycles + 1
    /\ before_call' = Found(Self)
    /\ UNCHANGED <<overflow_checks, rom_data, loads>>
    /\ UNCHANGED host_vars

Next == LoadProgram \/ ExecuteCycle

Spec == Init /\ [][Next]_vars

----------------------------------------------------------------------------
(* The host program: main, the interpreter thread and the event loop *)

\* The ROM files given to the host: an unrecognized opcode at once; glyph 0
\* drawn twice, then an unrecognized opcode; glyph 0 drawn three times; a draw
\* at the last pixel of the screen, which panics after its first part; a ROM
\* that is too large
HostRoms ==
    {ToBytes(<<Op(0, 0, 0, 0)>>),
     ToBytes(<<Op(13, 0, 1, 5), Op(13, 0, 1, 5), Op(15, 15, 15, 15)>>),
     ToBytes(<<Op(13, 0, 1, 5), Op(13, 0, 1, 5), Op(13, 0, 1, 5)>>),
     ToBytes(<<OpXkk(6, 0, 63), OpXkk(6, 1, 31), Op(13, 0, 1, 5)>>),
     Fill(3585, 255)}

\* A panic in the interpreter thread ends the thread; it ends the process as
\* well when the build aborts on panic.
ProcessAfter(panicked) ==
    IF panicked /\ panic_aborts THEN "aborted" ELSE "running"

\* Mutant of AfterCycle: the thread goes on to send after a cycle that panicked.
AfterCycle_SendsAnyway(panicked) == "send"

\* Where the thread is after execute_cycle: a panic unwinds out of the loop
AfterCycle(panicked) == IF panicked THEN "dead" ELSE "send"

\* Mutant of try_recv: the newest value is taken and the older ones are dropped.
try_recv_TakesNewest(ch) ==
    IF Len(ch) = 0
    THEN [ok |-> FALSE, rest |-> ch]
    ELSE [ok |-> TRUE, value |-> ch[Len(ch)], rest |-> <<>>]

\* self.receiver.try_recv(): the oldest value of the channel, if there is one
try_recv(ch) ==
    IF Len(ch) = 0
    THEN [ok |-> FALSE, rest |-> ch]
    ELSE [ok |-> TRUE, value |-> Head(ch), rest |-> Tail(ch)]

\* window_state.draw(&memory): the frame shows memory[0xF00 .. 0xF00 + 256),
\* one pixel per bit
draw(mem) == [o \in 0..(DISPLAY_SIZE - 1) |-> mem[DisplayBase + o]]

HostInit ==
    /\ rom_data \in HostRoms
    /\ overflow_checks \in BOOLEAN
    /\ panic_aborts \in BOOLEAN
    /\ memory = new.memory
    /\ registers = new.registers
    /\ index_register = new.index_register
    /\ program_counter = new.program_counter
    /\ status = "running"
    /\ last_call = "new"
    /\ last_result = "Ok"
    /\ last_opcode = -1
    /\ loads = 0
    /\ cycles = 0
    /\ before_call = Found(new)
    /\ thread_at = "start"
    /\ channel = <<>>
    /\ user_events = 0
    /\ redraw_requested = FALSE
    /\ window = "none"
    /\ screen = <<>>
    /\ frames = 0
    /\ images = <<>>
    /\ process = "running"

\* let mut interpreter = Interpreter::new();
\* interpreter.load_program(&rom_data).unwrap();
ThreadStart ==
    /\ process = "running"
    /\ thread_at = "start"
    /\ \E r \in {load_program(Self, rom_data)} :
           /\ memory' = r.state.memory
           /\ registers' = r.state.registers
           /\ index_register' = r.state.index_register
           /\ program_counter' = r.state.program_counter
           /\ last_result' = r.result
           /\ status' = IF r.result = "Err" THEN "panicked" ELSE "running"
           /\ thread_at' = IF r.result = "Err" THEN "dead" ELSE "cycle"
           /\ process' = ProcessAfter(r.result = "Err")
    /\ last_call' = "load_program"
    /\ last_opcode' = -1
    /\ loads' = loads + 1
    /\ before_call' = Found(Self)
    /\ UNCHANGED <<overflow_checks, rom_data, cycles, channel, user_events,
                   redraw_requested, window, screen, frames, images, panic_aborts>>

\* interpreter.execute_cycle();
ThreadCycle ==
    /\ process = "running"
    /\ thread_at = "cycle"
    /\ cycles < HostCycles
    /\ \E r \in {execute_cycle(Self)} :
           /\ memory' = r.memory
           /\ registers' = r.registers
           /\ index_register' = r.index_register
           /\ program_counter' = r.program_counter
           /\ status' = IF r.panicked THEN "panicked" ELSE "running"
           /\ last_result' = IF r.panicked THEN "panic" ELSE "Ok"
           /\ thread_at' = AfterCycle(r.panicked)
           /\ process' = ProcessAfter(r.panicked)
           /\ images' = IF r.panicked THEN images ELSE Append(images, draw(r.memory))
    /\ last_call' = "execute_cycle"
    /\ last_opcode' = IF FetchInRange(Self) THEN Fetch(Self) ELSE -1
    /\ cycles' = cycles + 1
    /\ before_call' = Found(Self)
    /\ UNCHANGED <<overflow_checks, rom_data, loads, channel, user_events,
                   redraw_requested, window, screen, frames, panic_aborts>>

\* sender.send(interpreter.memory).unwrap();
ThreadSend ==
    /\ process = "running"
    /\ thread_at = "send"
    /\ channel' = Append(channel, memory)
    /\ thread_at' = "notify"
    /\ UNCHANGED <<memory, registers, index_register, program_counter,
                   overflow_checks, status, rom_data, last_call, last_result,
                   last_opcode, loads, cycles, before_call, user_events,
                   redraw_requested, window, screen, frames, images, process,
                   panic_aborts>>

\* event_loop_proxy.send_event(UserEvent::RedrawScreen); then the thread sleeps
ThreadNotify ==
    /\ process = "running"
    /\ thread_at = "notify"
    /\ user_events' = user_events + 1
    /\ thread_at' = "cycle"
    /\ UNCHANGED <<memory, registers, index_register, program_counter,
                   overflow_checks, status, rom_data, last_call, last_result,
                   last_opcode, loads, cycles, before_call, channel,
                   redraw_requested, window, screen, frames, images, process,
                   panic_aborts>>

\* Application::resumed: the window is created; WindowState::new resizes it,
\* which requests a redraw
Resumed ==
    /\ process = "running"
    /\ window = "none"
    /\ window' = "open"
    /\ redraw_requested' = TRUE
    /\ UNCHANGED <<memory, registers, index_register, program_counter,
                   overflow_checks, status, rom_data, last_call, last_result,
                   last_opcode, loads, cycles, before_call, thread_at, channel,
                   user_events, screen, frames, images, process, panic_aborts>>

\* Application::user_event: request_redraw on every window
UserEvent ==
    /\ process = "running"
    /\ user_events > 0
    /\ user_events' = user_events - 1
    /\ redraw_requested' = IF window = "open" THEN TRUE ELSE redraw_requested
    /\ UNCHANGED <<memory, registers, index_register, program_counter,
                   overflow_checks, status, rom_data, last_call, last_result,
                   last_opcode, loads, cycles, before_call, thread_at, channel,
                   window, screen, frames, images, process, panic_aborts>>

\* WindowEvent::Resized: WindowState::resize requests a redraw
Resized ==
    /\ process = "running"
    /\ window = "open"
    /\ redraw_requested' = TRUE
    /\ UNCHANGED <<memory, registers, index_register, program_counter,
                   overflow_checks, status, rom_data, last_call, last_result,
                   last_opcode, loads, cycles, before_call, thread_at, channel,
                   user_events, window, screen, frames, images, process,
                   panic_aborts>>

\* WindowEvent::CloseRequested: the window is removed; the event loop goes on
CloseRequested ==
    /\ process = "running"
    /\ window = "open"
    /\ window' = "closed"
    /\ redraw_requested' = FALSE
    /\ UNCHANGED <<memory, registers, index_register, program_counter,
                   overflow_checks, status, rom_data, last_call, last_result,
                   last_opcode, loads, cycles, before_call, thread_at, channel,
                   user_events, screen, frames, images, process, panic_aborts>>

\* WindowEvent::RedrawRequested:
\* if let Ok(memory) = self.receiver.try_recv() { window_state.draw(&memory) }
RedrawRequested ==
    /\ process = "running"
    /\ window = "open"
    /\ redraw_requested
    /\ redraw_requested' = FALSE
    /\ \E r \in {try_recv(channel)} :
           /\ channel' = r.rest
           /\ screen' = IF r.ok THEN draw(r.value) ELSE screen
           /\ frames' = IF r.ok THEN frames + 1 ELSE frames
    /\ UNCHANGED <<memory, registers, index_register, program_counter,
                   overflow_checks, status, rom_data, last_call, last_result,
                   last_opcode, loads, cycles, before_call, thread_at,
                   user_events, window, images, process, panic_aborts>>

HostNext ==
    \/ ThreadStart
    \/ ThreadCycle
    \/ ThreadSend
    \/ ThreadNotify
    \/ Resumed
    \/ UserEvent
    \/ Resized
    \/ CloseRequested
    \/ RedrawRequested

HostSpec == HostInit /\ [][HostNext]_vars

----------------------------------------------------------------------------
(* Vocabulary of the properties *)

\* The step is a call of load_program / of execute_cycle
LoadStep == last_call' = "load_program" /\ loads' = loads + 1
CycleStep == last_call' = "execute_cycle" /\ cycles' = cycles + 1

\* The step is an execute_cycle that fetched opcode op
Executes(op) == CycleStep /\ last_opcode' = op

\* The fields of an opcode, by arithmetic on its hexadecimal digits
Digit1(op) == op \div 4096
Digit2(op) == (op \div 256) % 16
Digit3(op) == (op \div 16) % 16
Digit4(op) == op % 16
FieldKk(op) == op % 256
FieldNnn(op) == op % 4096

FontRegion == 0..79
ProgramRegion == 512..3839
FramebufferRegion == 3840..4095

\* m1 and m2 hold the same bytes at every address outside lo..hi
SameOutside(lo, hi, m1, m2) == ([a \in lo..hi |-> m2[a]] @@ m1) = m2

\* The glyphs as the tests test_display_binary_0 .. test_display_binary_f read them
TestGlyphs ==
    << <<240, 144, 144, 144, 240>>, <<32, 96, 32, 32, 112>>,
       <<240, 16, 240, 128, 240>>,  <<240, 16, 240, 16, 240>>,
       <<144, 144, 240, 16, 16>>,   <<240, 128, 240, 16, 240>>,
       <<240, 128, 240, 144, 240>>, <<240, 16, 32, 64, 64>>,
       <<240, 144, 240, 144, 240>>, <<240, 144, 240, 16, 240>>,
       <<240, 144, 240, 144, 144>>, <<224, 144, 224, 144, 224>>,
       <<240, 128, 128, 128, 240>>, <<224, 144, 144, 144, 224>>,
       <<240, 128, 240, 128, 240>>, <<240, 128, 240, 128, 128>> >>

----------------------------------------------------------------------------
(* Program loader *)

\* C1: for every byte array b with len(b) <= 3584, load_program(b) returns Ok
\* and afterwards memory[0x200 + i] = b[i] for every i < len(b).
C1_LoadCopiesProgram ==
    (last_call = "load_program" /\ Len(rom_data) <= 3584)
        => /\ last_result = "Ok"
           /\ \A i \in 0..(Len(rom_data) - 1) : memory[512 + i] = rom_data[i + 1]

\* A program of the maximum size has been loaded again after a cycle cleared
\* its last bytes.
C1_Witness ==
    /\ last_call = "load_program" /\ last_result = "Ok"
    /\ Len(rom_data) = 3584 /\ loads = 2 /\ cycles > 0
    /\ memory[4095] = 255

\* C2: for every byte array b with len(b) > 3584, load_program(b) returns an
\* error and leaves memory, registers, index_register and program_counter as
\* they were before the call.
C2_OversizeRejected ==
    [][(LoadStep /\ Len(rom_data) > 3584)
        => /\ last_result' = "Err"
           /\ UNCHANGED <<memory, registers, index_register, program_counter>>]_vars

\* A 3585-byte ROM has been refused.
C2_Witness ==
    /\ last_call = "load_program" /\ last_result = "Err"
    /\ Len(rom_data) = 3585 /\ rom_data[1] = 0
    /\ memory[512] = 0

\* C3: a successful load_program(b) changes only memory[0x200 .. 0x200 + len(b)):
\* all registers, index_register, program_counter and every memory byte
\* outside that range are unchanged.
C3_LoadFrame ==
    [][(LoadStep /\ last_result' = "Ok")
        => /\ UNCHANGED <<registers, index_register, program_counter>>
           /\ SameOutside(512, 512 + Len(rom_data) - 1, memory', memory)]_vars

\* A program has been loaded again after cycles changed a register, the index
\* register, the program counter and the framebuffer.
C3_Witness ==
    /\ last_call = "load_program" /\ last_result = "Ok" /\ loads = 2
    /\ registers[0] # 0 /\ index_register # 0 /\ program_counter # 512
    /\ \E a \in FramebufferRegion : memory[a] # 0

\* C4 as stated: for every accepted program, load_program writes no byte of
\* the font region [0x000, 0x050) nor of the framebuffer region [0xF00, 0x1000).
C4_LoadKeepsFontAndFramebuffer ==
    [][(LoadStep /\ last_result' = "Ok")
        => \A a \in FontRegion \cup FramebufferRegion : memory'[a] = memory[a]]_vars

\* C4 amended: load_program writes no byte of the font region for any accepted
\* program, and no byte of the framebuffer region when len(b) <= 0xD00 (3328);
\* an accepted program longer than 3328 bytes overwrites the framebuffer bytes
\* 0xF00 .. 0x200 + len(b) - 1 with its own bytes and leaves the rest.
C4_LoadKeepsFontAndShortKeepsFramebuffer ==
    [][(LoadStep /\ last_result' = "Ok")
        => /\ \A a \in FontRegion : memory'[a] = memory[a]
           /\ \A a \in FramebufferRegion :
                memory'[a] = IF a < 512 + Len(rom_data)
                             THEN rom_data[a - 512 + 1]
                             ELSE memory[a]]_vars

\* A 3328-byte program has been loaded into a fresh interpreter: it ends at the
\* byte before the framebuffer, which is still all zero.
C4_Witness ==
    /\ last_call = "load_program" /\ last_result = "Ok"
    /\ Len(rom_data) = 3328 /\ cycles = 0
    /\ memory[3839] = 255
    /\ \A a \in FramebufferRegion : memory[a] = 0

----------------------------------------------------------------------------
(* Construction *)

\* C5: the state returned by new() has the 80-byte font table (16 glyphs of 5
\* bytes, glyph g at offset 5*g) in memory[0 .. 80), every other memory byte 0,
\* all 16 registers 0, index_register = 0 and program_counter = 0x200.
C5_NewState ==
    (last_call = "new")
        => /\ \A g \in 0..15 : \A k \in 0..4 : memory[5 * g + k] = TestGlyphs[g + 1][k + 1]
           /\ \A a \in 80..4095 : memory[a] = 0
           /\ DOMAIN memory = 0..4095
           /\ registers = [r \in 0..15 |-> 0]
           /\ index_register = 0
           /\ program_counter = 512

\* A freshly constructed interpreter, before any call.
C5_Witness ==
    /\ last_call = "new" /\ loads = 0 /\ cycles = 0
    /\ memory[75] = 240 /\ memory[79] = 128 /\ memory[80] = 0

----------------------------------------------------------------------------
(* Opcode rules *)

\* The thirteen encodings 00E0, 1nnn, 3xkk, 4xkk, 5xy0, 6xkk, 7xkk, 8xy0..8xy3,
\* Annn, Dxyn
RecognizedEncoding(op) ==
    \/ op = 224
    \/ Digit1(op) \in {1, 3, 4, 6, 7, 10, 13}
    \/ Digit1(op) = 5 /\ Digit4(op) = 0
    \/ Digit1(op) = 8 /\ Digit4(op) \in 0..3

\* C6: for every opcode that is not one of the thirteen encodings,
\* execute_cycle ends in the fatal condition without applying any effect and
\* without advancing the program counter.
C6_UnrecognizedIsFatal ==
    [][(CycleStep /\ last_opcode' # -1 /\ ~RecognizedEncoding(last_opcode'))
        => /\ status' = "panicked"
           /\ UNCHANGED <<memory, registers, index_register, program_counter>>]_vars

\* C7: executing 00E0 from any state sets every byte of memory[0xF00 .. 0x1000)
\* to 0, changes no memory byte outside that range and no register or
\* index_register, and advances program_counter by exactly 2.
C7_ClearScreen ==
    [][Executes(224)
        => /\ \A a \in FramebufferRegion : memory'[a] = 0
           /\ \A a \in 0..3839 : memory'[a] = memory[a]
           /\ UNCHANGED <<registers, index_register>>
           /\ program_counter' = program_counter + 2
           /\ status' = "running"]_vars

\* 00E0 has run on a framebuffer that a 3584-byte ROM had filled with 0xFF.
C7_Witness ==
    /\ last_call = "execute_cycle" /\ last_opcode = 224 /\ last_result = "Ok"
    /\ Len(rom_data) = 3584 /\ memory[3839] = 255
    /\ memory[3840] = 0 /\ memory[4095] = 0
    /\ program_counter = 514

\* C8: executing 1nnn sets program_counter to exactly nnn for every nnn in
\* 0..0xFFF and changes nothing else.
C8_Jump ==
    [][(CycleStep /\ last_opcode' # -1 /\ Digit1(last_opcode') = 1)
        => /\ program_counter' = FieldNnn(last_opcode')
           /\ UNCHANGED <<memory, registers, index_register>>
           /\ status' = "running"]_vars

\* 1FFF has run: the program counter is 0xFFF.
C8_Witness ==
    /\ last_call = "execute_cycle" /\ last_opcode = 8191 /\ last_result = "Ok"
    /\ program_counter = 4095

\* C9: 3xkk advances program_counter by 4 if Vx = kk and by 2 otherwise; 4xkk
\* by 4 if Vx != kk and by 2 otherwise; 5xy0 by 4 if Vx = Vy and by 2 otherwise;
\* none of them changes any register, index_register or memory.
SkipTaken(op) ==
    CASE Digit1(op) = 3 -> registers[Digit2(op)] = FieldKk(op)
      [] Digit1(op) = 4 -> registers[Digit2(op)] # FieldKk(op)
      [] Digit1(op) = 5 -> registers[Digit2(op)] = registers[Digit3(op)]

IsSkipOpcode(op) ==
    \/ Digit1(op) \in {3, 4}
    \/ Digit1(op) = 5 /\ Digit4(op) = 0

C9_Skips ==
    [][(CycleStep /\ last_opcode' # -1 /\ IsSkipOpcode(last_opcode'))
        => /\ program_counter' =
                program_counter + (IF SkipTaken(last_opcode') THEN 4 ELSE 2)
           /\ UNCHANGED <<memory, registers, index_register>>
           /\ status' = "running"]_vars

\* 4xkk has run with Vx = kk and has not skipped, after a 3xkk that did not skip.
C9_Witness ==
    /\ last_call = "execute_cycle" /\ last_opcode = OpXkk(4, 0, 255)
    /\ registers[0] = 255 /\ program_counter = 520

\* C10: executing 6xkk sets register Vx to kk and advances program_counter by
\* 2; every other register, index_register and all of memory are unchanged.
C10_LoadImmediate ==
    [][(CycleStep /\ last_opcode' # -1 /\ Digit1(last_opcode') = 6)
        => /\ registers' =
                [registers EXCEPT ![Digit2(last_opcode')] = FieldKk(last_opcode')]
           /\ program_counter' = program_counter + 2
           /\ UNCHANGED <<memory, index_register>>
           /\ status' = "running"]_vars

\* 6xkk has run on a register other than VF while VF held a non-zero value.
C10_Witness ==
    /\ last_call = "execute_cycle" /\ last_opcode = OpXkk(6, 2, 171)
    /\ registers[2] = 171 /\ registers[15] = 240

----------------------------------------------------------------------------
(* Register arithmetic *)

\* Bit k of a byte, bit 0 being the least significant
BitOf(v, k) == (v \div (2 ^ k)) % 2

\* C11: executing 7xkk never fails: for every 8-bit Vx and kk, including pairs
\* with Vx + kk > 255, it sets Vx to (Vx + kk) mod 256, leaves every other
\* register (VF included) unchanged, and advances program_counter by 2.
C11_AddNeverFails ==
    [][(CycleStep /\ last_opcode' # -1 /\ Digit1(last_opcode') = 7)
        => /\ status' = "running"
           /\ registers' =
                [registers EXCEPT ![Digit2(last_opcode')] =
                    (@ + FieldKk(last_opcode')) % 256]
           /\ program_counter' = program_counter + 2]_vars

\* C12: after 8xy0 Vx equals the old Vy, after 8xy1 the old Vx OR the old Vy,
\* after 8xy2 the old Vx AND the old Vy, after 8xy3 the old Vx XOR the old Vy,
\* bit by bit, and in each case program_counter advances by 2.
C12_RegisterOps ==
    [][(CycleStep /\ last_opcode' # -1 /\ Digit1(last_opcode') = 8
            /\ Digit4(last_opcode') \in 0..3)
        => LET x == Digit2(last_opcode')
               y == Digit3(last_opcode')
               n == Digit4(last_opcode')
           IN  /\ status' = "running"
               /\ registers'[x] \in 0..255
               /\ \A k \in 0..7 :
                    BitOf(registers'[x], k) =
                        CASE n = 0 -> BitOf(registers[y], k)
                          [] n = 1 -> IF BitOf(registers[x], k) = 1
                                         \/ BitOf(registers[y], k) = 1
                                      THEN 1 ELSE 0
                          [] n = 2 -> IF BitOf(registers[x], k) = 1
                                         /\ BitOf(registers[y], k) = 1
                                      THEN 1 ELSE 0
                          [] n = 3 -> IF BitOf(registers[x], k) # BitOf(registers[y], k)
                                      THEN 1 ELSE 0
               /\ program_counter' = program_counter + 2]_vars

\* 8xy1 has run on V0 = 0x0F and V1 = 0xF0 and has left 0xFF in V0.
C12_Witness ==
    /\ last_call = "execute_cycle" /\ last_opcode = Op(8, 0, 1, 1)
    /\ last_result = "Ok"
    /\ before_call.registers[0] = 15 /\ before_call.registers[1] = 240
    /\ registers[0] = 255

\* C13 as stated: 8xy1, 8xy2 and 8xy3 leave Vy unchanged for every choice of
\* x and y, x = y included, and every register contents; only Vx may change.
C13_VyUnchanged ==
    [][(CycleStep /\ last_opcode' # -1 /\ Digit1(last_opcode') = 8
            /\ Digit4(last_opcode') \in 1..3)
        => /\ registers'[Digit3(last_opcode')] = registers[Digit3(last_opcode')]
           /\ \A r \in 0..15 :
                r # Digit2(last_opcode') => registers'[r] = registers[r]]_vars

\* C13 amended: 8xy1, 8xy2 and 8xy3 change no register other than Vx, so Vy is
\* unchanged whenever y # x; when x = y the one register is both operands and
\* the destination: 8xx1 and 8xx2 leave it as it was and 8xx3 sets it to 0.
C13_OnlyVxChanges ==
    [][(CycleStep /\ last_opcode' # -1 /\ Digit1(last_opcode') = 8
            /\ Digit4(last_opcode') \in 1..3)
        => LET x == Digit2(last_opcode')
               y == Digit3(last_opcode')
           IN  /\ \A r \in 0..15 : r # x => registers'[r] = registers[r]
               /\ x = y => registers'[x] =
                              IF Digit4(last_opcode') = 3 THEN 0 ELSE registers[x]
               /\ UNCHANGED <<memory, index_register>>]_vars

\* 8113 has run on V1 = 0xFF and has left 0 in V1.
C13_Witness ==
    /\ last_call = "execute_cycle" /\ last_opcode = Op(8, 1, 1, 3)
    /\ last_result = "Ok"
    /\ before_call.registers[1] = 255
    /\ registers[1] = 0

\* C14: executing Annn sets index_register to nnn, advances program_counter by
\* 2, and changes no register and no memory byte.
C14_SetIndex ==
    [][(CycleStep /\ last_opcode' # -1 /\ Digit1(last_opcode') = 10)
        => /\ index_register' = FieldNnn(last_opcode')
           /\ program_counter' = program_counter + 2
           /\ UNCHANGED <<memory, registers>>
           /\ status' = "running"]_vars

\* AFFF has run while V0 and V1 held non-zero values: the index register is 0xFFF.
C14_Witness ==
    /\ last_call = "execute_cycle" /\ last_opcode = OpNnn(10, 4095)
    /\ last_result = "Ok"
    /\ index_register = 4095 /\ before_call.index_register = 0
    /\ registers[0] # 0 /\ program_counter = 518

----------------------------------------------------------------------------
(* Sprite drawing *)

\* The exclusive or of two bytes, bit by bit
XorBits(a, b) ==
    LET d(k) == IF BitOf(a, k) # BitOf(b, k) THEN 2 ^ k ELSE 0
    IN  d(0) + d(1) + d(2) + d(3) + d(4) + d(5) + d(6) + d(7)

\* The step is an execute_cycle that fetched a Dxyn
DrawStep == CycleStep /\ last_opcode' # -1 /\ Digit1(last_opcode') = 13

\* The operands the draw finds: Vx, Vy, the sprite height and I
DrawVx == registers[Digit2(last_opcode')]
DrawVy == registers[Digit3(last_opcode')]
DrawN == Digit4(last_opcode')
DrawI == index_register

\* The framebuffer offset of the byte that holds the leftmost bit of sprite row k
RowOffset(k) == ((DrawVy + k) % 32) * 8 + (DrawVx % 64) \div 8

\* The bit offset of the sprite within that byte
BitOffset == DrawVx % 8

\* The addresses that the rows before row k draw on
DrawnBefore(k) ==
    {3840 + RowOffset(j) : j \in 0..(k - 1)}
    \cup (IF BitOffset > 0 THEN {3840 + RowOffset(j) + 1 : j \in 0..(k - 1)} ELSE {})

\* Sprite byte k as the draw reads it: memory[I + k], which is the byte found
\* before the draw unless an earlier row of this draw drew on that very address
\* (no address is drawn on twice in one draw, so such a byte keeps the value
\* that earlier row gave it).
SpriteByte(k) ==
    IF DrawI + k \in DrawnBefore(k) THEN memory'[DrawI + k] ELSE memory[DrawI + k]

HighPart(k) == SpriteByte(k) \div (2 ^ BitOffset)
LowPart(k) == (SpriteByte(k) * (2 ^ (8 - BitOffset))) % 256

\* The sprite lies within memory and no row puts a non-zero low part after
\* the last byte of the framebuffer
DrawInRange ==
    /\ DrawI + DrawN <= 4096
    /\ \A k \in 0..(DrawN - 1) :
            (BitOffset > 0 /\ RowOffset(k) = 255) => LowPart(k) = 0

\* C15: when Vx mod 8 = 0, Dxyn XORs sprite byte memory[I + k] (k = 0..n-1)
\* into exactly the framebuffer byte at offset
\* ((Vy + k) mod 32) * 8 + (Vx mod 64) / 8 and changes no other framebuffer
\* byte; glyph 0 (I = 0, n = 5) at Vx = 0, Vy = 0 on a zeroed framebuffer gives
\* F0, 90, 90, 90, F0 in the first byte of rows 0..4, VF = 0 and
\* program_counter advanced by 2.
C15_AlignedDraw ==
    [][(DrawStep /\ BitOffset = 0 /\ DrawI + DrawN <= 4096)
        => /\ status' = "running"
           /\ \A o \in 0..255 :
                memory'[3840 + o] =
                    IF \E k \in 0..(DrawN - 1) : o = RowOffset(k)
                    THEN XorBits(memory[3840 + o],
                                 SpriteByte(CHOOSE k \in 0..(DrawN - 1) :
                                                o = RowOffset(k)))
                    ELSE memory[3840 + o]
           /\ program_counter' = program_counter + 2
           /\ (/\ DrawI = 0 /\ DrawN = 5 /\ DrawVx = 0 /\ DrawVy = 0
               /\ \A o \in 0..255 : memory[3840 + o] = 0)
                => /\ <<memory'[3840], memory'[3848], memory'[3856],
                        memory'[3864], memory'[3872]>> = <<240, 144, 144, 144, 240>>
                   /\ registers'[15] = 0]_vars

\* Glyph 0 has been drawn at Vx = 0, Vy = 0 on a zeroed framebuffer.
C15_Witness ==
    /\ last_call = "execute_cycle" /\ last_opcode = Op(13, 0, 1, 5)
    /\ last_result = "Ok"
    /\ before_call.registers[0] = 0 /\ before_call.registers[1] = 0
    /\ before_call.index_register = 0
    /\ \A o \in 0..255 : before_call.framebuffer[o] = 0
    /\ memory[3840] = 240 /\ memory[3848] = 144 /\ memory[3872] = 240
    /\ registers[15] = 0

\* C16: when r = Vx mod 8 is non-zero, each sprite byte v is split into a high
\* part v >> r XORed into the framebuffer byte containing the sprite's leftmost
\* bit and a low part (v << (8 - r)) mod 256 XORed into the next framebuffer
\* byte, the low part being applied only when it is non-zero; glyph 0 at
\* Vx = 4, Vy = 0 on a zeroed framebuffer gives 0F,00 / 09,00 / 09,00 / 09,00 /
\* 0F,00 in the first two bytes of rows 0..4.
C16_UnalignedDraw ==
    [][(DrawStep /\ BitOffset > 0 /\ DrawInRange)
        => /\ status' = "running"
           /\ \A o \in 0..255 :
                memory'[3840 + o] =
                    IF \E k \in 0..(DrawN - 1) : o = RowOffset(k)
                    THEN XorBits(memory[3840 + o],
                                 HighPart(CHOOSE k \in 0..(DrawN - 1) :
                                              o = RowOffset(k)))
                    ELSE IF \E k \in 0..(DrawN - 1) : o = RowOffset(k) + 1
                    THEN XorBits(memory[3840 + o],
                                 LowPart(CHOOSE k \in 0..(DrawN - 1) :
                                             o = RowOffset(k) + 1))
                    ELSE memory[3840 + o]
           /\ (/\ DrawI = 0 /\ DrawN = 5 /\ DrawVx = 4 /\ DrawVy = 0
               /\ \A o \in 0..255 : memory[3840 + o] = 0)
                => \A k \in 0..4 :
                      /\ memory'[3840 + 8 * k] = <<15, 9, 9, 9, 15>>[k + 1]
                      /\ memory'[3840 + 8 * k + 1] = 0]_vars

\* Glyph 0 has been drawn at Vx = 13, Vy = 2 on a zeroed framebuffer: its first
\* row 0xF0 is 0x07 in byte 1 and 0x80 in byte 2 of row 2.
C16_Witness ==
    /\ last_call = "execute_cycle" /\ last_opcode = Op(13, 0, 1, 5)
    /\ last_result = "Ok"
    /\ before_call.registers[0] = 13 /\ before_call.registers[1] = 2
    /\ before_call.index_register = 0
    /\ \A o \in 0..255 : before_call.framebuffer[o] = 0
    /\ memory[3840 + 17] = 7 /\ memory[3840 + 18] = 128

\* The step is a completed Dxyn that follows a completed execute_cycle of the
\* same opcode with the same Vx, Vy and I, with no call in between
SecondDraw ==
    /\ DrawStep /\ status' = "running"
    /\ last_call = "execute_cycle" /\ last_result = "Ok"
    /\ last_opcode = last_opcode'
    /\ before_call.registers[Digit2(last_opcode')] = DrawVx
    /\ before_call.registers[Digit3(last_opcode')] = DrawVy
    /\ before_call.index_register = DrawI

\* The sprite's source bytes lie outside the framebuffer region
SpriteOutsideFramebuffer == DrawI + DrawN <= 3840

\* C17: for any framebuffer contents, any sprite whose source bytes lie outside
\* the framebuffer region and any position, executing the same Dxyn twice in
\* succession with the same Vx, Vy and I, both draws completing, leaves the
\* framebuffer byte for byte as it was before the first draw.
C17_DoubleDrawRestores ==
    [][(SecondDraw /\ SpriteOutsideFramebuffer)
        => \A o \in 0..255 : memory'[3840 + o] = before_call.framebuffer[o]]_vars

\* Glyph 0 has been drawn twice at the origin of the framebuffer that a
\* 3584-byte ROM had filled with 0xFF: the first draw left 0x0F in byte 0, the
\* second has made it 0xFF again.
C17_Witness ==
    /\ last_call = "execute_cycle" /\ last_opcode = Op(13, 0, 1, 5)
    /\ last_result = "Ok" /\ cycles = 2
    /\ Len(rom_data) = 3584
    /\ before_call.framebuffer[0] = 15 /\ before_call.framebuffer[1] = 255
    /\ memory[3840] = 255 /\ memory[3872] = 255

\* Some set bit of the byte part lies on a clear bit of the byte found
SetOnClear(part, found) == \E b \in 0..7 : BitOf(part, b) = 1 /\ BitOf(found, b) = 0

\* Some set bit of the sprite lies on a bit that was clear in the framebuffer
\* of before_call
SpriteOnClearBit ==
    \E k \in 0..(DrawN - 1) :
        \/ SetOnClear(HighPart(k), before_call.framebuffer[RowOffset(k)])
        \/ /\ BitOffset > 0
           /\ LowPart(k) # 0
           /\ SetOnClear(LowPart(k), before_call.framebuffer[RowOffset(k) + 1])

\* C18 as stated: when the same glyph (a sprite with at least one set bit) is
\* drawn twice in succession at the same location with nothing in between, the
\* second Dxyn leaves VF non-zero, whatever the framebuffer held before the
\* first draw.
C18_SecondDrawCollides ==
    [][(/\ SecondDraw /\ SpriteOutsideFramebuffer
        /\ \E k \in 0..(DrawN - 1) : memory[DrawI + k] # 0)
        => registers'[15] # 0]_vars

\* C18 amended: the second Dxyn leaves VF non-zero exactly when some set bit of
\* the sprite fell on a framebuffer bit that was clear before the first draw;
\* when every set bit of the sprite fell on a bit that was already set, the
\* first draw cleared them all and the second draw leaves VF = 0.
C18_SecondDrawCollidesOnFirstSetBits ==
    [][(SecondDraw /\ SpriteOutsideFramebuffer)
        => (registers'[15] # 0 <=> SpriteOnClearBit)]_vars

\* Glyph 0 has been drawn twice at the origin of a zeroed framebuffer: the
\* second draw erased it and left VF non-zero.
C18_Witness ==
    /\ last_call = "execute_cycle" /\ last_opcode = Op(13, 0, 1, 5)
    /\ last_result = "Ok" /\ cycles = 2 /\ Len(rom_data) = 6
    /\ before_call.framebuffer[0] = 240 /\ before_call.framebuffer[32] = 240
    /\ memory[3840] = 0
    /\ registers[15] # 0

\* The pixel of the framebuffer at row r and column c, the leftmost pixel of a
\* byte being its most significant bit
Pixel(mem, r, c) == BitOf(mem[3840 + r * 8 + (c \div 8)], 7 - (c % 8))

\* C19: for every Vy in 0..255, Vx in 0..255 and n in 0..15, sprite row k of
\* Dxyn is drawn on framebuffer row (Vy + k) mod 32, the modulo applied per
\* row, starting at pixel column Vx mod 64: the pixel at that row and at column
\* Vx mod 64 + b is flipped exactly when bit b of the sprite row, counted from
\* the left, is set.
C19_Wraparound ==
    [][(DrawStep /\ status' = "running")
        => \A k \in 0..(DrawN - 1) : \A b \in 0..7 :
              LET r == (DrawVy + k) % 32
                  c == (DrawVx % 64) + b
              IN  c <= 63 =>
                    ((Pixel(memory', r, c) # Pixel(memory, r, c))
                        <=> BitOf(SpriteByte(k), 7 - b) = 1)]_vars

\* Glyph 0 has been drawn at Vx = 60, Vy = 31: its rows are on framebuffer rows
\* 31, 0, 1, 2 and 3, in byte column 7.
C19_Witness ==
    /\ last_call = "execute_cycle" /\ last_opcode = Op(13, 0, 1, 5)
    /\ last_result = "Ok"
    /\ before_call.registers[0] = 60 /\ before_call.registers[1] = 31
    /\ before_call.index_register = 0
    /\ before_call.framebuffer[255] = 0
    /\ memory[3840 + 255] = 15 /\ memory[3840 + 7] = 9 /\ memory[3840 + 31] = 15

----------------------------------------------------------------------------
(* Program counter *)

\* C20 as stated: in every state reachable from new() by any sequence of
\* load_program and non-fatal execute_cycle calls, program_counter is even
\* after each completed cycle.
C20_CounterAlwaysEven ==
    (last_call = "execute_cycle" /\ last_result = "Ok") => program_counter % 2 = 0

\* C20 amended: load_program leaves program_counter as it is and every
\* completed cycle keeps its parity, except 1nnn, which gives it the parity of
\* nnn: program_counter is even after each completed cycle until a 1nnn with an
\* odd nnn is executed, and odd from then on until the next jump.
C20_ParityChangesOnlyByJump ==
    [][/\ LoadStep => program_counter' = program_counter
       /\ (CycleStep /\ status' = "running")
            => program_counter' % 2 =
                  IF Digit1(last_opcode') = 1
                  THEN FieldNnn(last_opcode') % 2
                  ELSE program_counter % 2]_vars

\* After 1203 has jumped to the odd address 0x203, the 6012 found there has
\* run and has left program_counter at 0x205.
C20_Witness ==
    /\ last_call = "execute_cycle" /\ last_opcode = OpXkk(6, 0, 18)
    /\ last_result = "Ok" /\ cycles = 2
    /\ registers[0] = 18
    /\ program_counter = 517

----------------------------------------------------------------------------
(* Failures and memory regions *)

\* C21: an unrecognized opcode is the only way execute_cycle can fail: in every
\* state reachable from new() by load_program and completed cycles, the fetch
\* at program_counter and program_counter + 1 is within memory, and if the two
\* bytes form a recognized opcode then execute_cycle completes normally.
C21_OnlyUnrecognizedFails ==
    [][CycleStep
        => /\ program_counter + 1 <= 4095
           /\ last_opcode' # -1
           /\ RecognizedEncoding(last_opcode') => status' = "running"]_vars

\* C22: after any sequence of load_program and execute_cycle calls,
\* memory[0 .. 80) still holds exactly the 16 glyphs written by new().
C22_FontNeverMutated ==
    \A a \in FontRegion : memory[a] = TestGlyphs[(a \div 5) + 1][(a % 5) + 1]

\* Glyph 0 has been drawn twice out of the font table on framebuffer rows 0 to
\* 4 and the screen cleared, with the program loaded twice.
C22_Witness ==
    /\ last_call = "execute_cycle" /\ last_opcode = 224 /\ last_result = "Ok"
    /\ loads = 2 /\ cycles = 6
    /\ rom_data = ToBytes(DrawProgram(0, 1, 4, 0, 0, 5))
    /\ memory[0] = 240 /\ memory[79] = 128

\* Some bit is set in both bytes
Overlap(a, b) == \E k \in 0..7 : BitOf(a, k) = 1 /\ BitOf(b, k) = 1

\* Some applied part of the sprite has a set bit on a framebuffer bit that is
\* set when the part is applied (no byte is drawn on twice in one draw, so that
\* is the byte the draw finds)
DrawCollides ==
    \E k \in 0..(DrawN - 1) :
        \/ Overlap(HighPart(k), memory[3840 + RowOffset(k)])
        \/ /\ BitOffset > 0
           /\ LowPart(k) # 0
           /\ Overlap(LowPart(k), memory[3840 + RowOffset(k) + 1])

\* C24: Dxyn resets VF to 0 before the first row, so the result does not depend
\* on the value VF held and n = 0 leaves VF = 0 and the framebuffer unchanged;
\* at the end VF is non-zero if and only if at least one applied sprite part
\* (high or low) had a set bit on a framebuffer bit that was already set when
\* the part was applied.
C24_CollisionFlag ==
    [][(DrawStep /\ status' = "running")
        => /\ registers'[15] # 0 <=> DrawCollides
           /\ \A r \in 0..14 : registers'[r] = registers[r]
           /\ DrawN = 0 => (registers'[15] = 0 /\ memory' = memory)]_vars

\* Glyph 0 has been drawn on a zeroed framebuffer while VF held 4: VF is 0.
C24_Witness ==
    /\ last_call = "execute_cycle" /\ last_opcode = Op(13, 15, 1, 5)
    /\ last_result = "Ok" /\ cycles = 4
    /\ before_call.registers[15] = 4
    /\ \A o \in 0..255 : before_call.framebuffer[o] = 0
    /\ memory[3840 + 16] = 15
    /\ registers[15] = 0

\* C25: for every Vx, Vy in 0..255, every n in 0..15 and every sprite content,
\* each byte Dxyn modifies lies at an address in [0xF00, 0x1000), also when the
\* start column is in the last byte column on row 31 with a non-zero low part.
C25_DrawWritesFramebufferOnly ==
    [][DrawStep
        => /\ DOMAIN memory' = 0..4095
           /\ SameOutside(3840, 4095, memory', memory)]_vars

\* Glyph 0 has been drawn at Vx = 255, Vy = 255: the high part of its first row
\* is in the last byte of the framebuffer, and the draw has ended there.
C25_Witness ==
    /\ last_call = "execute_cycle" /\ last_opcode = Op(13, 0, 1, 5)
    /\ before_call.registers[0] = 255 /\ before_call.registers[1] = 255
    /\ before_call.framebuffer[255] = 0
    /\ memory[4095] = 1
    /\ last_result = "panic"

\* Overlaying the first len bytes of data at offset changes nothing in mem
HoldsAt(mem, offset, data, len) ==
    ([a \in offset..(offset + len - 1) |-> data[a - offset + 1]] @@ mem) = mem

\* The number of bytes of an accepted ROM that lie below the framebuffer
BelowFramebuffer(data) == IF Len(data) <= 3328 THEN Len(data) ELSE 3328

\* C28: execute_cycle never writes a memory byte outside [0xF00, 0x1000), so
\* after any sequence of completed cycles every byte of the program region
\* below 0xF00 equals what load_program left there.
C28_NoSelfModifyingCode ==
    /\ [][CycleStep => SameOutside(3840, 4095, memory', memory)]_vars
    /\ []((loads > 0 /\ Len(rom_data) <= 3584)
            => HoldsAt(memory, 512, rom_data, BelowFramebuffer(rom_data)))

\* A 3584-byte ROM has run 00E0 and its jump back: the bytes of the ROM up to
\* 0xEFF are as loaded, the framebuffer is cleared.
C28_Witness ==
    /\ last_call = "execute_cycle" /\ last_result = "Ok" /\ cycles = 2
    /\ Len(rom_data) = 3584 /\ rom_data[1] = 0
    /\ memory[512] = 0 /\ memory[513] = 224 /\ memory[3839] = 255
    /\ memory[3840] = 0
    /\ program_counter = 512

\* C29: Dxyn samples Vx and Vy before it resets VF: when x = 15 or y = 15 the
\* draw position is derived from the value VF held before the instruction, not
\* from the reset value 0, and VF is then overwritten with the collision result.
C29_OperandsBeforeFlagReset ==
    [][(/\ DrawStep /\ status' = "running"
        /\ (Digit2(last_opcode') = 15 \/ Digit3(last_opcode') = 15))
        => LET px == IF Digit2(last_opcode') = 15 THEN registers[15]
                     ELSE registers[Digit2(last_opcode')]
               py == IF Digit3(last_opcode') = 15 THEN registers[15]
                     ELSE registers[Digit3(last_opcode')]
               at(k) == 3840 + ((py + k) % 32) * 8 + ((px % 64) \div 8)
           IN  /\ \A k \in 0..(DrawN - 1) :
                    memory'[at(k)] =
                        XorBits(memory[at(k)], SpriteByte(k) \div (2 ^ (px % 8)))
               /\ registers'[15] # 0 <=> DrawCollides]_vars

\* D1F5 has drawn glyph 0 while VF held 2 and V1 held 4: the glyph starts on
\* row 2, not on row 0, and VF is 0.
C29_Witness ==
    /\ last_call = "execute_cycle" /\ last_opcode = Op(13, 1, 15, 5)
    /\ last_result = "Ok" /\ cycles = 4
    /\ before_call.registers[15] = 2 /\ before_call.registers[1] = 4
    /\ memory[3840] = 0 /\ memory[3840 + 16] = 15
    /\ registers[15] = 0

\* C30: a sprite row never spills onto another screen row: every framebuffer
\* byte a draw modifies belongs to framebuffer row (Vy + k) mod 32 of some
\* sprite row k and to the byte column of the start pixel or the one after it;
\* pixels past column 63 are not applied to the first byte of the following row.
C30_NoRowSpill ==
    [][DrawStep
        => \A o \in 0..255 :
              memory'[3840 + o] # memory[3840 + o]
                => \E k \in 0..(DrawN - 1) :
                      /\ o \div 8 = (DrawVy + k) % 32
                      /\ o % 8 \in {(DrawVx % 64) \div 8, ((DrawVx % 64) \div 8) + 1}]_vars

----------------------------------------------------------------------------
(* The host program *)

\* The interpreter thread has met an unrecognized opcode
ThreadMetUnrecognized ==
    /\ thread_at = "dead"
    /\ last_call = "execute_cycle" /\ last_result = "panic"
    /\ last_opcode # -1 /\ ~RecognizedEncoding(last_opcode)

\* C23: in the host program an unrecognized opcode is process-terminating: once
\* execute_cycle in the interpreter thread hits one, the whole host stops: no
\* further cycle runs, no further snapshot is published, and the rendering
\* event loop does not keep running on its own.
C23_UnrecognizedStopsHost ==
    [][ThreadMetUnrecognized => UNCHANGED vars]_vars

\* The number of values sent so far: those drawn and those still in the channel
Sent == frames + Len(channel)

\* C26: every snapshot the rendering side receives is a full 4096-byte copy of
\* memory taken after a completed execute_cycle and before the next one starts:
\* the interpreter thread alternates strictly cycle -> send copy -> redraw
\* event, so the renderer never observes memory of a cycle in progress.
C26_SnapshotsAfterCompletedCycles ==
    /\ [][channel' # channel
            => \/ Len(channel) > 0 /\ channel' = Tail(channel)
               \/ /\ channel' = Append(channel, memory)
                  /\ DOMAIN memory = 0..4095
                  /\ thread_at = "send" /\ thread_at' = "notify"
                  /\ last_call = "execute_cycle" /\ last_result = "Ok"
                  /\ status = "running"
                  /\ UNCHANGED <<memory, cycles>>]_vars
    /\ [][cycles' # cycles
            => thread_at = "cycle" /\ thread_at' \in {"send", "dead"}]_vars
    /\ [][user_events' > user_events
            => thread_at = "notify" /\ thread_at' = "cycle"]_vars
    /\ [](/\ Sent = IF thread_at = "send" THEN Len(images) - 1 ELSE Len(images)
          /\ \A i \in 1..Len(channel) : draw(channel[i]) = images[frames + i])

\* The thread has completed two cycles and sent a copy after each: the first
\* shows glyph 0, the second the screen from which the second draw erased it;
\* the third cycle has panicked after its first part and nothing more was sent.
C26_Witness ==
    /\ Len(channel) = 2 /\ frames = 0
    /\ channel[1][3840] = 240 /\ channel[2][3840] = 0
    /\ thread_at = "dead" /\ cycles = 3 /\ process = "running"

\* C27: the renderer consumes at most one queued snapshot per RedrawRequested
\* event, in FIFO order and without skipping: the k-th frame it draws is the
\* memory image after the k-th executed cycle, whatever the interleaving of
\* sends, redraw events and resize events, so the frame on screen is never
\* newer than the interpreter's state and can lag behind it.
C27_FramesInOrder ==
    /\ [][(Len(channel') < Len(channel) \/ frames' # frames \/ screen' # screen)
            => /\ window = "open" /\ redraw_requested /\ ~redraw_requested'
               /\ Len(channel) > 0
               /\ channel' = Tail(channel)
               /\ frames' = frames + 1
               /\ screen' = draw(Head(channel))]_vars
    /\ [](/\ frames <= Len(images)
          /\ frames > 0 => screen = images[frames])

\* The first frame, glyph 0, is on screen while the thread has completed three
\* cycles: two newer copies wait in the channel.
C27_Witness ==
    /\ frames = 1 /\ Len(channel) = 2 /\ Len(images) = 3
    /\ screen # <<>> /\ screen[0] = 240
    /\ channel[1][3840] = 0 /\ channel[2][3840] = 240

====
